---- MODULE Spec2Model ----
(***************************************************************************)
(* Model of src/src/lib.rs: a reference-counted async lock.                *)
(*                                                                         *)
(* Inner { locked: AtomicBool, lock_ops: Event, data: UnsafeCell<T> } is   *)
(* shared by every Lock handle and LockGuard.  Every atomic operation of   *)
(* the code (the compare_and_swap of try_lock, Event::listen, the store    *)
(* and the notify_one of the guard's drop, the read and the write of the   *)
(* data through a guard) is one step of the task that executes it, so the  *)
(* interleavings of the model are the interleavings of the tasks.          *)
(***************************************************************************)
EXTENDS Integers, FiniteSets, Sequences, TLC

\* Number of tasks sharing handles of the one lock.
NumTasks == 3
\* Number of lock() calls of a task in the loop scenarios.
MaxIter == 2
\* Number of lock() calls of a task in the cancellation scenario.
MaxCalls == 1
\* The fairness threshold of lib.rs 14 (0.5 ms), counted in failed attempts.
FairThreshold == 2
\* Number of client operations (lock, try_lock, fmt, increment) started in all.
MaxOps == 3
\* Largest number of references (handles and guards) to the shared block.
MaxRefs == 3

Tasks == 1..NumTasks

VARIABLES
    locked,     \* Inner.locked
    data,       \* Inner.data
    listener,   \* per task: the EventListener local of its lock() future
    pc,         \* per task: position in the code
    guards,     \* per task: number of live LockGuards it owns
    tmp,        \* per task: value read by `*guard += 1` before it is written
    after,      \* per task: where control goes when the guard's drop returns
    budget,     \* per task: client operations it may still start
    forever,    \* TRUE when the clients loop without end
    result,     \* per task: how its last try_lock() or abandoned lock() ended
    rendered,   \* per task: what its last Debug rendering wrote
    fails,      \* per task: failed attempts of its pending lock() call
    behind,     \* per task: the starved waiters its request arrived behind
    handles,    \* per task: number of Lock handles it owns
    strong      \* strong count of the Arc<Inner>; the block is freed at 0

vars == <<locked, data, listener, pc, guards, tmp, after, budget, forever,
          result, rendered, fails, behind, handles, strong>>

RECURSIVE SumOver(_, _)
SumOver(f, S) ==
    IF S = {} THEN 0
    ELSE LET x == CHOOSE y \in S : TRUE IN f[x] + SumOver(f, S \ {x})

\* Number of live guards of the lock.
LiveGuards == SumOver(guards, Tasks)

-----------------------------------------------------------------------------
(* event_listener::Event, the notification primitive (spec section 4.3).   *)

\* Event::listen(): registers a new listener for task t.
listen(t) == [listener EXCEPT ![t] = "waiting"]

\* Some listener is registered and not yet notified.
SomeWaiting == \E u \in Tasks : listener[u] = "waiting"

\* The listener sets Event::notify_one() may leave in ls: one listener that
\* is registered and not yet notified becomes notified; none registered: no-op.
notify_one(ls) ==
    IF \E u \in Tasks : ls[u] = "waiting"
    THEN {[ls EXCEPT ![u] = "notified"] : u \in {v \in Tasks : ls[v] = "waiting"}}
    ELSE {ls}

\* Dropping the EventListener of task t: it is deregistered, and a
\* notification it had received and not consumed is passed on.
listener_drop(t) ==
    LET removed == [listener EXCEPT ![t] = "none"]
    IN  IF listener[t] = "notified" THEN notify_one(removed) ELSE {removed}

-----------------------------------------------------------------------------
(* Lock::try_lock, lib.rs 138-148.                                         *)

\* Mutant: a plain store in place of the swap, which always seems to succeed.
store_unchecked(current, new) == [prev |-> current, val |-> new]

\* Mutant: the comparison without the store.
compare_only(current, new) == [prev |-> locked, val |-> locked]

\* AtomicBool::compare_and_swap(current, new): the previous value and the
\* value stored.
compare_and_swap(current, new) ==
    [prev |-> locked, val |-> IF locked = current THEN new ELSE locked]

\* Mutant: the result of the swap tested the wrong way round.
try_lock_inverted == compare_and_swap(FALSE, TRUE).prev

\* try_lock() returns Some(guard) iff the swap returned false.
try_lock_some == ~compare_and_swap(FALSE, TRUE).prev

\* Mutant: the guard borrows the block instead of owning a reference to it.
try_lock_borrowed(t) ==
    /\ locked' = compare_and_swap(FALSE, TRUE).val
    /\ guards' = IF try_lock_some THEN [guards EXCEPT ![t] = @ + 1] ELSE guards
    /\ strong' = strong

\* Mutant: try_lock that flips the flag (fetch_xor) instead of comparing.
try_lock_toggle(t) ==
    /\ locked' = ~locked
    /\ guards' = IF try_lock_some THEN [guards EXCEPT ![t] = @ + 1] ELSE guards
    /\ strong' = IF try_lock_some THEN strong + 1 ELSE strong

\* The effect of try_lock() by task t on the flag and the guards; the guard
\* is LockGuard(self.clone()), lib.rs 144: it owns a reference of its own.
try_lock(t) ==
    /\ locked' = compare_and_swap(FALSE, TRUE).val
    /\ guards' = IF try_lock_some THEN [guards EXCEPT ![t] = @ + 1] ELSE guards
    /\ strong' = IF try_lock_some THEN strong + 1 ELSE strong

-----------------------------------------------------------------------------
(* History of the requests, recorded to state the fairness claims: it is   *)
(* written by the steps below and read by none of them.  It is kept in the *)
(* scenario of sustained contention (forever), where those claims are      *)
(* stated, and left empty elsewhere.                                       *)

\* The pending lock() calls that have failed more than FairThreshold times.
Starved == {u \in Tasks : fails[u] > FairThreshold}

\* Task t makes an attempt on the flag; arriving: the attempt opens a new
\* request; waiter: the attempt belongs to a lock() call.
attempt(t, arriving, waiter) ==
    LET here == IF arriving /\ try_lock_some THEN Starved \ {t} ELSE {}
    IN  IF ~forever
        THEN UNCHANGED <<fails, behind>>
        ELSE /\ fails' = [fails EXCEPT ![t] =
                             IF try_lock_some \/ ~waiter THEN 0
                             ELSE IF @ > FairThreshold THEN @ ELSE @ + 1]
             /\ behind' = [u \in Tasks |->
                             IF u = t
                             THEN IF arriving THEN here ELSE behind[t]
                             ELSE IF try_lock_some THEN behind[u] \ {t} ELSE behind[u]]

\* The pending request of task t is over without a guard.
withdrawn(t) ==
    /\ fails' = [fails EXCEPT ![t] = 0]
    /\ behind' = [u \in Tasks |-> behind[u] \ {t}]

-----------------------------------------------------------------------------
(* Client calls.                                                           *)

\* A client operation is started: it uses up one unit of the task's budget.
Spend(t) ==
    /\ forever \/ budget[t] > 0
    /\ budget' = IF forever THEN budget ELSE [budget EXCEPT ![t] = @ - 1]

\* The outputs of the task's previous try_lock() and fmt() calls are gone
\* once it starts its next operation.
Forget(t) ==
    /\ result' = [result EXCEPT ![t] = "-"]
    /\ rendered' = [rendered EXCEPT ![t] = "-"]

\* Mutant: the iteration registers its listener before the first try_lock.
first_try_registers(t) ==
    /\ try_lock(t)
    /\ listener' = listen(t)
    /\ pc' = [pc EXCEPT ![t] = IF try_lock_some THEN "cs" ELSE "listen"]
    /\ UNCHANGED <<data, tmp, after, forever>>
    /\ UNCHANGED handles

\* lib.rs 108-110: the first try_lock of an iteration of lock().
first_try(t) ==
    /\ try_lock(t)
    /\ pc' = [pc EXCEPT ![t] = IF try_lock_some THEN "cs" ELSE "listen"]
    /\ UNCHANGED <<data, listener, tmp, after, forever>>
    /\ UNCHANGED handles

\* lock() is called and its future is polled: the first iteration starts.
CallLock(t) ==
    /\ pc[t] = "idle"
    /\ handles[t] > 0
    /\ Spend(t)
    /\ first_try(t)
    /\ attempt(t, TRUE, TRUE)
    /\ Forget(t)

\* The woken future is polled again: the next iteration starts.
Try1(t) ==
    /\ pc[t] = "try1"
    /\ first_try(t)
    /\ attempt(t, FALSE, TRUE)
    /\ UNCHANGED <<budget, result, rendered>>

\* lib.rs 113: let listener = self.0.lock_ops.listen().
Listen(t) ==
    /\ pc[t] = "listen"
    /\ listener' = listen(t)
    /\ pc' = [pc EXCEPT ![t] = "try2"]
    /\ UNCHANGED <<locked, data, guards, tmp, after, budget, forever, result, rendered,
                   fails, behind>>
    /\ UNCHANGED <<handles, strong>>

\* Mutant: the future suspends after registering, without the second try_lock.
Try2Skipped(t) ==
    /\ pc[t] = "try2"
    /\ pc' = [pc EXCEPT ![t] = "await"]
    /\ UNCHANGED <<locked, data, listener, guards, tmp, after, budget, forever, result,
                   rendered, fails, behind>>
    /\ UNCHANGED <<handles, strong>>

\* Mutant: the successful second try_lock leaves its listener registered.
Try2Keep(t) ==
    /\ pc[t] = "try2"
    /\ try_lock(t)
    /\ listener' = listener
    /\ pc' = [pc EXCEPT ![t] = IF try_lock_some THEN "cs" ELSE "await"]
    /\ attempt(t, FALSE, TRUE)
    /\ UNCHANGED <<data, tmp, after, budget, forever, result, rendered>>
    /\ UNCHANGED handles

\* lib.rs 114-116: the second try_lock; on success the guard is returned and
\* the listener goes out of scope.
Try2(t) ==
    /\ pc[t] = "try2"
    /\ try_lock(t)
    /\ IF try_lock_some
       THEN /\ listener' \in listener_drop(t)
            /\ pc' = [pc EXCEPT ![t] = "cs"]
       ELSE /\ listener' = listener
            /\ pc' = [pc EXCEPT ![t] = "await"]
    /\ attempt(t, FALSE, TRUE)
    /\ UNCHANGED <<data, tmp, after, budget, forever, result, rendered>>
    /\ UNCHANGED handles

\* lib.rs 117: listener.await resolves once the listener is notified; the
\* listener is consumed and the loop starts over.
Await(t) ==
    /\ pc[t] = "await"
    /\ listener[t] = "notified"
    /\ listener' = [listener EXCEPT ![t] = "none"]
    /\ pc' = [pc EXCEPT ![t] = "try1"]
    /\ UNCHANGED <<locked, data, guards, tmp, after, budget, forever, result, rendered,
                   fails, behind>>
    /\ UNCHANGED <<handles, strong>>

\* Mutant: the abandoned future leaks its listener instead of dropping it.
CancelLeak(t) ==
    /\ pc[t] = "await"
    /\ pc' = [pc EXCEPT ![t] = "idle"]
    /\ result' = [result EXCEPT ![t] = "Cancelled"]
    /\ withdrawn(t)
    /\ UNCHANGED <<locked, data, listener, guards, tmp, after, budget, forever, rendered>>
    /\ UNCHANGED <<handles, strong>>

\* The lock() future is dropped while it is suspended at lib.rs 117, its only
\* await point: its local listener is dropped with it.
Cancel(t) ==
    /\ pc[t] = "await"
    /\ listener' \in listener_drop(t)
    /\ pc' = [pc EXCEPT ![t] = "idle"]
    /\ result' = [result EXCEPT ![t] = "Cancelled"]
    /\ withdrawn(t)
    /\ UNCHANGED <<locked, data, guards, tmp, after, budget, forever, rendered>>
    /\ UNCHANGED <<handles, strong>>

\* try_lock() called by the client, lib.rs 138-148.
TryLock(t) ==
    /\ pc[t] = "idle"
    /\ handles[t] > 0
    /\ Spend(t)
    /\ try_lock(t)
    /\ result' = [result EXCEPT ![t] = IF try_lock_some THEN "Some" ELSE "None"]
    /\ rendered' = [rendered EXCEPT ![t] = "-"]
    /\ pc' = [pc EXCEPT ![t] = IF try_lock_some THEN "cs" ELSE "idle"]
    /\ attempt(t, TRUE, FALSE)
    /\ UNCHANGED <<data, listener, tmp, after, forever>>
    /\ UNCHANGED handles

-----------------------------------------------------------------------------
(* The guard: Deref / DerefMut (lib.rs 223-235) and Drop (lib.rs 204-209). *)

\* `*guard += 1`: the read through deref_mut.
IncrRead(t) ==
    /\ pc[t] = "cs"
    /\ Spend(t)
    /\ tmp' = [tmp EXCEPT ![t] = data]
    /\ pc' = [pc EXCEPT ![t] = "write"]
    /\ Forget(t)
    /\ UNCHANGED <<locked, data, listener, guards, after, forever, fails, behind>>
    /\ UNCHANGED <<handles, strong>>

\* `*guard += 1`: the write through deref_mut.
IncrWrite(t) ==
    /\ pc[t] = "write"
    /\ data' = tmp[t] + 1
    /\ tmp' = [tmp EXCEPT ![t] = 0]
    /\ pc' = [pc EXCEPT ![t] = "cs"]
    /\ UNCHANGED <<locked, listener, guards, after, budget, forever, result, rendered,
                   fails, behind>>
    /\ UNCHANGED <<handles, strong>>

\* Mutant: the drop that does not clear the flag.
drop_no_store(t) ==
    /\ locked' = locked
    /\ guards' = [guards EXCEPT ![t] = @ - 1]
    /\ pc' = [pc EXCEPT ![t] = "notify"]
    /\ behind' = [behind EXCEPT ![t] = {}]
    /\ UNCHANGED fails
    /\ UNCHANGED <<handles, strong>>

\* lib.rs 206: locked.store(false, Release), the first statement of drop.
drop_store(t) ==
    /\ locked' = FALSE
    /\ guards' = [guards EXCEPT ![t] = @ - 1]
    /\ pc' = [pc EXCEPT ![t] = "notify"]
    /\ behind' = [behind EXCEPT ![t] = {}]
    /\ UNCHANGED fails
    /\ UNCHANGED <<handles, strong>>

\* The guard goes out of scope at the end of the critical section or of fmt.
Release(t) ==
    /\ pc[t] \in {"cs", "rendered"}
    /\ drop_store(t)
    /\ UNCHANGED <<data, listener, tmp, after, budget, forever, result, rendered>>

\* Mutant: the panicking task ends without running the guard's drop.
UnwindLeak(t) ==
    /\ pc[t] \in {"cs", "write"}
    /\ pc' = [pc EXCEPT ![t] = "dead"]
    /\ UNCHANGED <<locked, data, listener, guards, tmp, after, budget, forever, result,
                   rendered, fails, behind>>
    /\ UNCHANGED <<handles, strong>>

\* The critical section panics: unwinding drops the guard, then the task ends.
Unwind(t) ==
    /\ pc[t] \in {"cs", "write"}
    /\ drop_store(t)
    /\ after' = [after EXCEPT ![t] = "dead"]
    /\ UNCHANGED <<data, listener, tmp, budget, forever, result, rendered>>

\* When the drop of the guard returns, the guard's Lock field is dropped: one
\* reference less; a task that ends by unwinding drops its handles as well.
guard_gone(t) ==
    LET dying == after[t] = "dead"
    IN  /\ handles' = IF dying THEN [handles EXCEPT ![t] = 0] ELSE handles
        /\ strong' = strong - 1 - (IF dying THEN handles[t] ELSE 0)

\* Mutant: the drop that returns without notifying.
NotifySkipped(t) ==
    /\ pc[t] = "notify"
    /\ guard_gone(t)
    /\ pc' = [pc EXCEPT ![t] = after[t]]
    /\ after' = [after EXCEPT ![t] = "idle"]
    /\ UNCHANGED <<locked, data, listener, guards, tmp, budget, forever, result, rendered,
                   fails, behind>>

\* Mutant: the drop that notifies every listener (notify_all).
NotifyAll(t) ==
    /\ pc[t] = "notify"
    /\ guard_gone(t)
    /\ listener' = [u \in Tasks |-> IF listener[u] = "waiting" THEN "notified"
                                                                ELSE listener[u]]
    /\ pc' = [pc EXCEPT ![t] = after[t]]
    /\ after' = [after EXCEPT ![t] = "idle"]
    /\ UNCHANGED <<locked, data, guards, tmp, budget, forever, result, rendered,
                   fails, behind>>

\* Mutant: the drop hands the lock over to the listener it notifies.
NotifyHandoff(t) ==
    /\ pc[t] = "notify"
    /\ IF SomeWaiting
       THEN \E u \in Tasks :
               /\ listener[u] = "waiting"
               /\ listener' = [listener EXCEPT ![u] = "none"]
               /\ locked' = TRUE
               /\ guards' = [guards EXCEPT ![u] = @ + 1]
               /\ pc' = [pc EXCEPT ![t] = after[t], ![u] = "cs"]
               /\ UNCHANGED <<handles, strong>>
       ELSE /\ guard_gone(t)
            /\ pc' = [pc EXCEPT ![t] = after[t]]
            /\ UNCHANGED <<locked, listener, guards>>
    /\ after' = [after EXCEPT ![t] = "idle"]
    /\ UNCHANGED <<data, tmp, budget, forever, result, rendered, fails, behind>>

\* lib.rs 207: lock_ops.notify_one(), the second statement of drop.
Notify(t) ==
    /\ pc[t] = "notify"
    /\ guard_gone(t)
    /\ listener' \in notify_one(listener)
    /\ pc' = [pc EXCEPT ![t] = after[t]]
    /\ after' = [after EXCEPT ![t] = "idle"]
    /\ UNCHANGED <<locked, data, guards, tmp, budget, forever, result, rendered,
                   fails, behind>>

-----------------------------------------------------------------------------
(* Debug for Lock, lib.rs 151-165.                                         *)

\* What debug_struct("Lock").field("data", ..).finish() writes.
debug_struct(field) == "Lock { data: " \o field \o " }"

\* Mutant: fmt takes the suspending path when the lock is held.
FmtBlocking(t) ==
    /\ pc[t] \in {"idle", "cs"}
    /\ handles[t] > 0 \/ guards[t] > 0
    /\ Spend(t)
    /\ try_lock(t)
    /\ pc' = [pc EXCEPT ![t] = IF try_lock_some THEN "fmt" ELSE "listen"]
    /\ after' = [after EXCEPT ![t] = IF try_lock_some THEN pc[t] ELSE @]
    /\ Forget(t)
    /\ attempt(t, TRUE, FALSE)
    /\ UNCHANGED <<data, listener, tmp, forever>>
    /\ UNCHANGED handles

\* Mutant: fmt renders the data without a guard when try_lock returns None.
FmtPeek(t) ==
    /\ pc[t] \in {"idle", "cs"}
    /\ handles[t] > 0 \/ guards[t] > 0
    /\ Spend(t)
    /\ try_lock(t)
    /\ IF try_lock_some
       THEN /\ pc' = [pc EXCEPT ![t] = "fmt"]
            /\ after' = [after EXCEPT ![t] = pc[t]]
            /\ rendered' = [rendered EXCEPT ![t] = "-"]
       ELSE /\ rendered' = [rendered EXCEPT ![t] = debug_struct(ToString(data))]
            /\ UNCHANGED <<pc, after>>
    /\ result' = [result EXCEPT ![t] = "-"]
    /\ attempt(t, TRUE, FALSE)
    /\ UNCHANGED <<data, listener, tmp, forever>>
    /\ UNCHANGED handles

\* Mutant: fmt calls notify_one when try_lock returns None.
FmtNotify(t) ==
    /\ pc[t] \in {"idle", "cs"}
    /\ handles[t] > 0 \/ guards[t] > 0
    /\ Spend(t)
    /\ try_lock(t)
    /\ IF try_lock_some
       THEN /\ pc' = [pc EXCEPT ![t] = "fmt"]
            /\ after' = [after EXCEPT ![t] = pc[t]]
            /\ rendered' = [rendered EXCEPT ![t] = "-"]
            /\ listener' = listener
       ELSE /\ rendered' = [rendered EXCEPT ![t] = debug_struct("<locked>")]
            /\ listener' \in notify_one(listener)
            /\ UNCHANGED <<pc, after>>
    /\ result' = [result EXCEPT ![t] = "-"]
    /\ attempt(t, TRUE, FALSE)
    /\ UNCHANGED <<data, tmp, forever>>
    /\ UNCHANGED handles

\* lib.rs 160-161: fmt calls try_lock; None renders the Locked sentinel.
\* A handle can be rendered by a task that holds a guard itself (lib.rs 196).
FmtTry(t) ==
    /\ pc[t] \in {"idle", "cs"}
    /\ handles[t] > 0 \/ guards[t] > 0
    /\ Spend(t)
    /\ try_lock(t)
    /\ IF try_lock_some
       THEN /\ pc' = [pc EXCEPT ![t] = "fmt"]
            /\ after' = [after EXCEPT ![t] = pc[t]]
            /\ rendered' = [rendered EXCEPT ![t] = "-"]
       ELSE /\ rendered' = [rendered EXCEPT ![t] = debug_struct("<locked>")]
            /\ UNCHANGED <<pc, after>>
    /\ result' = [result EXCEPT ![t] = "-"]
    /\ attempt(t, TRUE, FALSE)
    /\ UNCHANGED <<data, listener, tmp, forever>>
    /\ UNCHANGED handles

\* lib.rs 162: Some(guard) renders the data read through the guard.
FmtData(t) ==
    /\ pc[t] = "fmt"
    /\ rendered' = [rendered EXCEPT ![t] = debug_struct(ToString(data))]
    /\ pc' = [pc EXCEPT ![t] = "rendered"]
    /\ UNCHANGED <<locked, data, listener, guards, tmp, after, budget, forever, result,
                   fails, behind>>
    /\ UNCHANGED <<handles, strong>>

-----------------------------------------------------------------------------

\* Lock::new(0), lib.rs 82-88, and the tasks before they run.
InitLock ==
    /\ locked = FALSE
    /\ data = 0
    /\ listener = [t \in Tasks |-> "none"]
    /\ pc = [t \in Tasks |-> "idle"]
    /\ guards = [t \in Tasks |-> 0]
    /\ tmp = [t \in Tasks |-> 0]
    /\ after = [t \in Tasks |-> "idle"]
    /\ result = [t \in Tasks |-> "-"]
    /\ rendered = [t \in Tasks |-> "-"]
    /\ fails = [t \in Tasks |-> 0]
    /\ behind = [t \in Tasks |-> {}]

\* lib.rs 26-28: every task has been spawned with a clone of the lock.
InitSpawned ==
    /\ handles = [t \in Tasks |-> 1]
    /\ strong = NumTasks

\* The clients start MaxOps operations in all, shared out among the tasks.
Init ==
    /\ InitLock
    /\ InitSpawned
    /\ budget \in {b \in [Tasks -> 0..MaxOps] : SumOver(b, Tasks) = MaxOps}
    /\ forever = FALSE

Next ==
    \E t \in Tasks :
        \/ CallLock(t)
        \/ Try1(t)
        \/ Listen(t)
        \/ Try2(t)
        \/ Await(t)
        \/ Cancel(t)
        \/ TryLock(t)
        \/ IncrRead(t)
        \/ IncrWrite(t)
        \/ Release(t)
        \/ Unwind(t)
        \/ Notify(t)
        \/ FmtTry(t)
        \/ FmtData(t)

Spec == Init /\ [][Next]_vars

-----------------------------------------------------------------------------
(* Scenario: every task runs `lock().await` then drops the guard, MaxIter  *)
(* times (spec section 8, "No lost wakeup").                               *)

InitLoop ==
    /\ InitLock
    /\ InitSpawned
    /\ budget = [t \in Tasks |-> MaxIter]
    /\ forever = FALSE

\* The steps of a task that only locks and releases.
LoopStep(t) ==
    \/ CallLock(t)
    \/ Try1(t)
    \/ Listen(t)
    \/ Try2(t)
    \/ Await(t)
    \/ Release(t)
    \/ Notify(t)

NextLoop == \E t \in Tasks : LoopStep(t)

\* The executor polls every task that can run: a task's next step is taken.
FairLoop == \A t \in Tasks : WF_vars(LoopStep(t))

SpecLoop == InitLoop /\ [][NextLoop]_vars /\ FairLoop

(* Scenario: every task makes MaxCalls lock() calls and may abandon a call *)
(* that is suspended; nothing obliges it to.                               *)

InitCancel ==
    /\ InitLock
    /\ InitSpawned
    /\ budget = [t \in Tasks |-> MaxCalls]
    /\ forever = FALSE

NextCancel == \E t \in Tasks : LoopStep(t) \/ Cancel(t)

SpecCancel == InitCancel /\ [][NextCancel]_vars /\ FairLoop

(* Scenario: the tasks lock and release without end.                       *)

InitForever ==
    /\ InitLock
    /\ InitSpawned
    /\ budget = [t \in Tasks |-> 0]
    /\ forever = TRUE

SpecForever == InitForever /\ [][NextLoop]_vars /\ FairLoop

(* Scenario of the crate-level doctest, lib.rs 18-36: every task runs      *)
(* `*lock.lock().await += 1` once.                                         *)

InitCounter ==
    /\ InitLock
    /\ InitSpawned
    /\ budget = [t \in Tasks |-> 2]
    /\ forever = FALSE

CounterStep(t) ==
    \/ CallLock(t) /\ budget[t] = 2
    \/ Try1(t)
    \/ Listen(t)
    \/ Try2(t)
    \/ Await(t)
    \/ IncrRead(t)
    \/ IncrWrite(t)
    \/ Release(t) /\ budget[t] = 0
    \/ Notify(t)

NextCounter == \E t \in Tasks : CounterStep(t)

SpecCounter == InitCounter /\ [][NextCounter]_vars

-----------------------------------------------------------------------------
(* Handles: Clone for Lock (lib.rs 51-55), LockGuard::source (lib.rs       *)
(* 199-201) and the drop of a handle, which is the drop of its Arc.        *)

\* A new reference to the block is handed to task u.
new_handle(u) ==
    /\ strong < MaxRefs
    /\ pc[u] # "dead"
    /\ handles' = [handles EXCEPT ![u] = @ + 1]
    /\ strong' = strong + 1
    /\ UNCHANGED <<locked, data, listener, pc, guards, tmp, after, budget, forever,
                   result, rendered, fails, behind>>

\* Mutant: clone builds a lock of its own around a copy of the data, so the
\* new handle is no reference to the block.
CloneCopy(t, u) ==
    /\ pc[t] \in {"idle", "cs"}
    /\ handles[t] > 0
    /\ strong < MaxRefs
    /\ pc[u] # "dead"
    /\ handles' = [handles EXCEPT ![u] = @ + 1]
    /\ UNCHANGED <<locked, data, listener, pc, guards, tmp, after, budget, forever,
                   result, rendered, fails, behind, strong>>

\* lib.rs 51-55: task t clones a handle it owns; the clone goes to task u.
Clone(t, u) ==
    /\ pc[t] \in {"idle", "cs"}
    /\ handles[t] > 0
    /\ new_handle(u)

\* lib.rs 199-201: task t clones the handle LockGuard::source gives for the
\* guard it holds; the clone goes to task u.
SourceClone(t, u) ==
    /\ pc[t] = "cs"
    /\ guards[t] > 0
    /\ new_handle(u)

\* Task t drops one of its handles.  The handle a pending lock() call
\* borrows cannot be dropped; a guard keeps no handle of the task borrowed.
DropHandle(t) ==
    /\ pc[t] \in {"idle", "cs"}
    /\ handles[t] > 0
    /\ handles' = [handles EXCEPT ![t] = @ - 1]
    /\ strong' = strong - 1
    /\ UNCHANGED <<locked, data, listener, pc, guards, tmp, after, budget, forever,
                   result, rendered, fails, behind>>

\* Lock::new(0) by task 1: the other tasks own no handle yet.
InitHandles ==
    /\ InitLock
    /\ handles = [t \in Tasks |-> IF t = 1 THEN 1 ELSE 0]
    /\ strong = 1
    /\ budget \in {b \in [Tasks -> 0..MaxOps] : SumOver(b, Tasks) = MaxOps}
    /\ forever = FALSE

NextHandles ==
    \/ \E t, u \in Tasks : Clone(t, u)
    \/ \E t, u \in Tasks : SourceClone(t, u)
    \/ \E t \in Tasks :
          \/ DropHandle(t)
          \/ CallLock(t)
          \/ Try1(t)
          \/ Listen(t)
          \/ Try2(t)
          \/ Await(t)
          \/ TryLock(t)
          \/ IncrRead(t)
          \/ IncrWrite(t)
          \/ Release(t)
          \/ Notify(t)

SpecHandles == InitHandles /\ [][NextHandles]_vars

-----------------------------------------------------------------------------
(* Properties.                                                             *)

\* The tasks inside a critical section: between obtaining a guard and the
\* start of its drop.
InCritical == {t \in Tasks : pc[t] \in {"cs", "write", "fmt", "rendered"}}

\* A lock() call of the task has started and has not resolved.
Pending(t) == pc[t] \in {"listen", "try2", "await", "try1"}

\* C1. Mutual exclusion: whatever the interleaving of lock() and try_lock()
\* calls, at most one guard is live and at most one task is inside a
\* critical section.
MutualExclusion ==
    /\ LiveGuards <= 1
    /\ Cardinality(InCritical) <= 1
    /\ \A t \in Tasks : guards[t] \in {0, 1}

\* A guard is live while a second task is suspended in lock() and a third
\* task's try_lock() has returned None.
MutualExclusionWitness ==
    \E t, u, v \in Tasks :
        /\ guards[t] = 1
        /\ pc[u] = "await"
        /\ result[v] = "None"

\* C2. locked is true iff exactly one guard is live, and false iff none is.
HeldIffOneGuard ==
    /\ locked <=> (LiveGuards = 1)
    /\ ~locked <=> (LiveGuards = 0)

\* The flag is set on behalf of a guard that came from try_lock().
HeldIffOneGuardWitness ==
    \E t \in Tasks : locked /\ result[t] = "Some" /\ guards[t] = 1 /\ LiveGuards = 1

\* The step in which task t calls try_lock() as a client.
IsTryLockCall(t) ==
    /\ pc[t] = "idle"
    /\ budget'[t] # budget[t]
    /\ result'[t] \in {"Some", "None"}

\* C6. try_lock() is one step that never suspends: it returns Some(guard) iff
\* locked was false, i.e. iff no guard was live, and None iff locked was true;
\* it registers no listener, and on None it changes neither flag nor guards.
TryLockAtomic ==
    [][\A t \in Tasks :
         IsTryLockCall(t) =>
            /\ (result'[t] = "Some") <=> ~locked
            /\ (result'[t] = "None") <=> locked
            /\ (result'[t] = "None") <=> (LiveGuards > 0)
            /\ listener' = listener
            /\ IF result'[t] = "Some"
               THEN locked' /\ guards'[t] = guards[t] + 1 /\ pc'[t] = "cs"
               ELSE locked' = locked /\ guards' = guards /\ pc'[t] = "idle"
      ]_vars

\* One task's try_lock() has returned a guard and another's has returned None.
TryLockAtomicWitness ==
    \E t, u \in Tasks : result[t] = "Some" /\ guards[t] = 1 /\ result[u] = "None"

\* Every task has made its MaxIter lock() calls and is out of the lock.
LoopDone == \A t \in Tasks : pc[t] = "idle" /\ budget[t] = 0

\* C3. No lost wakeup: when every task locks and releases MaxIter times, under
\* fair scheduling all tasks complete; none stays suspended for ever.
NoLostWakeup == <>[]LoopDone

\* A task is suspended on a listener not yet notified while another task is
\* between the store and the notify_one of its guard's drop.
NoLostWakeupWitness ==
    \E t, u \in Tasks :
        /\ pc[t] = "await"
        /\ listener[t] = "waiting"
        /\ pc[u] = "notify"
        /\ ~locked

\* C4. No starvation: under fair scheduling, with every guard released, every
\* lock() call that has started obtains a guard, also when the other tasks
\* lock and release for ever.
NoStarvation == \A t \in Tasks : Pending(t) ~> (guards[t] > 0)

\* C5. Bounded wait: once a lock() call has failed more than FairThreshold
\* times, no request that arrives afterwards obtains the lock while that call
\* is still pending.
BoundedWait == \A u \in Tasks : guards[u] > 0 => behind[u] = {}

\* C7. No lost updates: when every task has run `*lock.lock().await += 1`
\* once, the data, 0 at first, equals the number of tasks; until then it
\* equals the number of increments written.
NoLostUpdates ==
    /\ data = Cardinality({t \in Tasks : budget[t] = 0 /\ pc[t] # "write"})
    /\ (\A t \in Tasks : pc[t] = "idle" /\ budget[t] = 0) => data = NumTasks

\* All the tasks have incremented and released.
NoLostUpdatesWitness ==
    /\ \A t \in Tasks : pc[t] = "idle" /\ budget[t] = 0 /\ guards[t] = 0
    /\ data = NumTasks
    /\ ~locked

\* C8. Rendering a handle never suspends: while a guard is live (also the
\* renderer's own) the call returns in one step with the "<locked>" sentinel,
\* registers no listener and leaves the lock alone; while no guard is live it
\* takes a guard and then writes the value the data holds.
DebugNeverBlocks ==
    [][\A t \in Tasks :
         /\ FmtTry(t) =>
               IF LiveGuards > 0
               THEN /\ rendered'[t] = "Lock { data: <locked> }"
                    /\ pc'[t] = pc[t]
                    /\ listener' = listener /\ locked' = locked /\ guards' = guards
               ELSE /\ pc'[t] = "fmt"
                    /\ rendered'[t] = "-"
                    /\ guards'[t] = 1
         /\ pc[t] = "fmt" =>
               /\ ENABLED FmtData(t)
               /\ pc'[t] # "fmt" =>
                     /\ rendered'[t] = "Lock { data: " \o ToString(data) \o " }"
                     /\ rendered'[t] # "Lock { data: <locked> }"
                     /\ pc'[t] = "rendered"
         /\ pc[t] = "rendered" => ENABLED Release(t)
      ]_vars

\* One task has rendered the sentinel while a guard was live, and another has
\* rendered the value after the release.
DebugNeverBlocksWitness ==
    \E t, u \in Tasks :
        /\ rendered[t] = "Lock { data: <locked> }"
        /\ rendered[u] = "Lock { data: 0 }"
        /\ pc[u] = "idle"

\* The step in which task t abandons its suspended lock() call.
IsCancel(t) == pc[t] = "await" /\ pc'[t] = "idle"

\* C9. Cancellation: abandoning a pending lock() call leaves the flag and the
\* guards as they were (the call holds no guard), removes its listener, and
\* hands a notification it had received to a listener still waiting; every
\* pending lock() call that is not abandoned still obtains the lock.
CancelClean ==
    /\ [][\A t \in Tasks :
            IsCancel(t) =>
               /\ guards[t] = 0 /\ guards' = guards /\ locked' = locked
               /\ listener'[t] = "none"
               /\ \A u \in Tasks \ {t} : listener[u] = "notified" => listener'[u] = "notified"
               /\ (listener[t] = "notified" /\ \E u \in Tasks : u # t /\ listener[u] = "waiting")
                     => \E u \in Tasks :
                           u # t /\ listener[u] = "waiting" /\ listener'[u] = "notified"
         ]_vars
    /\ \A t \in Tasks : Pending(t) ~> (guards[t] > 0 \/ result[t] = "Cancelled")

\* A task has abandoned a lock() call that had been notified, and the
\* notification is now with another suspended task while the lock is free.
CancelCleanWitness ==
    \E t, u \in Tasks :
        /\ t # u
        /\ result[t] = "Cancelled" /\ pc[t] = "idle" /\ listener[t] = "none"
        /\ pc[u] = "await" /\ listener[u] = "notified"
        /\ ~locked
        /\ \A v \in Tasks \ {u} : pc[v] = "idle"

\* C10. No poisoning: when a critical section unwinds, the guard's drop runs:
\* the flag is cleared with the data as the section left it, then one waiting
\* listener is notified; the dead task owns no guard, and with no guard live
\* the next lock(), try_lock() or fmt() of an idle task takes the lock.
NoPoison ==
    /\ [](\A t \in Tasks : pc[t] = "dead" => guards[t] = 0 /\ listener[t] = "none")
    /\ [][\A t \in Tasks :
            /\ (pc[t] \in {"cs", "write"} /\ (pc'[t] = "dead" \/ after'[t] = "dead")) =>
                  /\ locked' = FALSE
                  /\ guards'[t] = 0
                  /\ data' = data
                  /\ pc'[t] = "notify"
            /\ (pc[t] = "notify" /\ after[t] = "dead") =>
                  /\ ENABLED Notify(t)
                  /\ pc'[t] # pc[t] =>
                        /\ pc'[t] = "dead"
                        /\ data' = data /\ locked' = locked
                        /\ IF SomeWaiting
                           THEN \E u \in Tasks :
                                   /\ listener[u] = "waiting"
                                   /\ listener' = [listener EXCEPT ![u] = "notified"]
                           ELSE listener' = listener
            /\ ((\E u \in Tasks : pc[u] = "dead") /\ LiveGuards = 0
                    /\ pc[t] = "idle" /\ budget'[t] # budget[t]) =>
                  locked' /\ guards'[t] = 1
         ]_vars

\* A task has died in its critical section after writing the data, and
\* another task's try_lock() has then returned a guard.
NoPoisonWitness ==
    \E t, u \in Tasks :
        /\ pc[t] = "dead"
        /\ data = 1
        /\ result[u] = "Some" /\ guards[u] = 1

\* The references to the block: the handles, the live guards, and the guards
\* whose drop has not returned yet.
References ==
    SumOver(handles, Tasks) + LiveGuards + Cardinality({t \in Tasks : pc[t] = "notify"})

\* No task owns a handle.
NoHandles == \A u \in Tasks : handles[u] = 0

\* C11. Guard independence: a guard owns a reference of its own, so the block
\* lives as long as any handle or guard does and is freed by the drop of the
\* last of them; with every handle dropped the guard still reaches the value
\* and its drop still clears locked and notifies.
GuardIndependence ==
    /\ [](strong = References)
    /\ [](LiveGuards > 0 => strong > 0)
    /\ [](NoHandles =>
            \A t \in Tasks :
               /\ pc[t] = "cs" => ENABLED Release(t)
               /\ pc[t] = "cs" /\ budget[t] > 0 => ENABLED IncrRead(t)
               /\ pc[t] = "write" => ENABLED IncrWrite(t)
               /\ pc[t] = "notify" => ENABLED Notify(t))
    /\ [][\A t \in Tasks :
            /\ (NoHandles /\ pc[t] = "cs" /\ pc'[t] = "notify") =>
                  ~locked' /\ strong' = strong /\ strong > 0
            /\ (NoHandles /\ pc[t] = "write" /\ pc'[t] = "cs") =>
                  data' = tmp[t] + 1 /\ strong > 0
            /\ (strong > 0 /\ strong' = 0) =>
                  NoHandles' /\ LiveGuards' = 0 /\ ~locked'
         ]_vars

\* A task that got its handle by clone holds a guard and is writing the data
\* after every handle, the original included, has been dropped.
GuardIndependenceWitness ==
    \E t \in Tasks \ {1} :
        /\ NoHandles
        /\ guards[t] = 1
        /\ strong = 1
        /\ pc[t] = "write"

\* C12. A clone of a handle, and a clone of the handle source(guard) gives, is
\* one more reference to the same block and changes nothing else; while a
\* guard is live try_lock() through any handle returns None, and with no
\* guard live it returns a guard, through which the data last written is read.
SameBlock ==
    [][\A t \in Tasks :
         /\ handles'[t] > handles[t] =>
               /\ handles'[t] = handles[t] + 1
               /\ strong' = strong + 1
               /\ UNCHANGED <<locked, data, listener, guards, pc>>
         /\ IsTryLockCall(t) =>
               /\ handles[t] > 0
               /\ (LiveGuards > 0) => result'[t] = "None" /\ guards'[t] = 0
               /\ (LiveGuards = 0) => result'[t] = "Some" /\ guards'[t] = 1
         /\ (pc[t] = "cs" /\ pc'[t] = "write") => tmp'[t] = data /\ LiveGuards = 1
      ]_vars

\* Task 1 has dropped the original handle; a task holds a guard and owns no
\* handle, and another task's try_lock() through a clone has returned None.
SameBlockWitness ==
    \E t, u \in Tasks \ {1} :
        /\ t # u
        /\ handles[1] = 0
        /\ guards[t] = 1 /\ handles[t] = 0
        /\ handles[u] > 0 /\ result[u] = "None"

\* The step in which the drop of task t's guard stores false.
IsDropStore(t) == pc[t] \in {"cs", "write", "rendered"} /\ pc'[t] = "notify"

\* The step in which the drop of task t's guard calls notify_one and returns.
IsDropNotify(t) == pc[t] = "notify" /\ pc'[t] # "notify"

\* The listeners a step turns from waiting to notified.
Woken == {u \in Tasks : listener[u] = "waiting" /\ listener'[u] = "notified"}

\* C13. The drop of a guard first clears locked, touching no listener, and
\* then notifies: if some listener is registered and not yet notified,
\* exactly one such listener becomes notified, otherwise nothing changes; the
\* notify leaves locked alone, and no step notifies two listeners.
ReleaseThenNotifyOne ==
    [][/\ Cardinality(Woken) <= 1
       /\ \A t \in Tasks :
            /\ IsDropStore(t) =>
                  /\ ~locked'
                  /\ guards'[t] = guards[t] - 1
                  /\ UNCHANGED <<listener, data>>
            /\ IsDropNotify(t) =>
                  /\ guards[t] = 0
                  /\ UNCHANGED <<locked, data, guards>>
                  /\ IF SomeWaiting
                     THEN /\ Cardinality(Woken) = 1
                          /\ \A u \in Tasks \ Woken : listener'[u] = listener[u]
                     ELSE listener' = listener
      ]_vars

\* Two tasks were suspended when a guard was dropped: one listener has been
\* notified and the other is still waiting, with the lock free.
ReleaseThenNotifyOneWitness ==
    \E u, v \in Tasks :
        /\ pc[u] = "await" /\ listener[u] = "notified"
        /\ pc[v] = "await" /\ listener[v] = "waiting"
        /\ ~locked
        /\ \A t \in Tasks \ {u, v} : pc[t] = "idle"

\* The lock() calls that are suspended at listener.await.
Suspended == {t \in Tasks : pc[t] = "await"}

\* No call on the lock and no drop of a guard is part-way through.
Quiescent == \A t \in Tasks : pc[t] \in {"idle", "await", "dead"}

\* C14. A release after the first test of lock() failed is never missed: in
\* no reachable state is the lock free, with no acquire or release step in
\* progress, while some lock() call is suspended and no suspended call's
\* listener has been notified.
RegisterBeforeRetest ==
    (~locked /\ Quiescent /\ Suspended # {})
        => \E t \in Suspended : listener[t] = "notified"

\* The lock is free and nothing is in progress; the one suspended call has
\* been notified by the release and is about to start over.
RegisterBeforeRetestWitness ==
    /\ ~locked
    /\ Quiescent
    /\ Cardinality(Suspended) = 1
    /\ \A t \in Suspended : listener[t] = "notified"

\* The step is a compare_and_swap by task t that succeeded: t has one guard
\* more and no other task's guards changed.
IsAcquire(t) ==
    /\ pc[t] \in {"idle", "try1", "try2"}
    /\ guards' = [guards EXCEPT ![t] = @ + 1]

\* C15. locked changes in two ways only: from false to true by a successful
\* compare_and_swap of try_lock() or lock(), and from true to false by the
\* drop of the live guard, done by the task that owns it; a try_lock() that
\* returns None leaves locked, the listeners and the data unchanged.
FlagDiscipline ==
    [][/\ (~locked /\ locked') => \E t \in Tasks : IsAcquire(t)
       /\ (locked /\ ~locked') =>
             \E t \in Tasks :
                /\ IsDropStore(t)
                /\ guards[t] = 1 /\ LiveGuards = 1
                /\ guards' = [guards EXCEPT ![t] = 0]
       /\ \A t \in Tasks :
             (IsTryLockCall(t) /\ result'[t] = "None") =>
                 UNCHANGED <<locked, listener, data, guards>>
      ]_vars

\* A try_lock() has returned None after the owner of the guard wrote the
\* data: the flag is still set, the guard still live, the data as written.
FlagDisciplineWitness ==
    \E t, v \in Tasks :
        /\ t # v
        /\ locked /\ guards[t] = 1 /\ pc[t] = "cs"
        /\ data = 1
        /\ result[v] = "None" /\ pc[v] = "idle"

\* Task t comes to the place `at` of lock() in this step.
Enters(t, at) == pc[t] # at /\ pc'[t] = at

\* C16. lock() suspends only on its listener, and only after the first
\* try_lock and the try_lock made after listen() have both failed in the same
\* iteration; when locked is false at the first try_lock, lock() returns the
\* guard in that step, registering no listener and not suspending.
SuspendAfterBothTests ==
    /\ [](\A t \in Tasks : pc[t] = "await" => listener[t] # "none")
    /\ [][\A t \in Tasks :
            /\ Enters(t, "listen") =>
                  /\ pc[t] \in {"idle", "try1"}
                  /\ locked /\ guards' = guards
                  /\ listener[t] = "none" /\ listener' = listener
            /\ Enters(t, "try2") =>
                  /\ pc[t] = "listen"
                  /\ listener[t] = "none" /\ listener'[t] = "waiting"
            /\ Enters(t, "await") =>
                  /\ pc[t] = "try2"
                  /\ locked /\ guards' = guards
                  /\ listener' = listener
            /\ (pc[t] = "await" /\ pc'[t] = "try1") => listener[t] = "notified"
            /\ pc[t] \in {"try1", "listen", "try2"} =>
                  ENABLED (Try1(t) \/ Listen(t) \/ Try2(t))
            /\ ((CallLock(t) \/ Try1(t)) /\ ~locked) =>
                  /\ pc'[t] = "cs"
                  /\ locked' /\ guards'[t] = guards[t] + 1
                  /\ listener' = listener
         ]_vars

\* One lock() call has returned its guard without registering a listener,
\* and another, having failed both tests, is suspended on its listener.
SuspendAfterBothTestsWitness ==
    \E t, u \in Tasks :
        /\ pc[t] = "cs" /\ guards[t] = 1 /\ listener[t] = "none" /\ result[t] = "-"
        /\ pc[u] = "await" /\ listener[u] = "waiting"
        /\ \A v \in Tasks : listener[v] # "none" => v = u

\* Some step of lock() or of a drop is taken by task t.
Moves(t) == pc'[t] # pc[t]

\* C17. A wake-up transfers no ownership: the notifying drop and the waking
\* of a listener leave locked and the guards as they are (after the release
\* locked stays false until a compare_and_swap succeeds); the woken lock()
\* call starts over at the first try_lock; a guard is obtained only by the
\* task's own successful compare_and_swap; and a woken call that finds
\* locked true registers a new listener and suspends again.
WakeupNoHandoff ==
    [][\A t \in Tasks :
         /\ IsDropNotify(t) =>
               /\ UNCHANGED <<locked, guards>>
               /\ \A u \in Tasks \ {t} : pc'[u] = pc[u]
         /\ (pc[t] = "await" /\ Moves(t)) =>
               /\ listener[t] = "notified" /\ listener'[t] = "none"
               /\ pc'[t] = "try1"
               /\ UNCHANGED <<locked, guards>>
         /\ guards'[t] > guards[t] =>
               /\ pc[t] \in {"idle", "try1", "try2"} /\ pc'[t] = "cs"
               /\ ~locked /\ locked'
         /\ (~locked /\ ~IsAcquire(t)) => guards'[t] <= guards[t]
         /\ (~locked /\ locked') => \E u \in Tasks : IsAcquire(u)
         /\ (pc[t] = "try1" /\ locked /\ Moves(t)) =>
               /\ pc'[t] = "listen"
               /\ UNCHANGED <<locked, guards, listener>>
         /\ (pc[t] = "listen" /\ Moves(t)) =>
               /\ pc'[t] = "try2"
               /\ listener[t] = "none" /\ listener'[t] = "waiting"
         /\ (pc[t] = "try2" /\ locked /\ Moves(t)) =>
               /\ pc'[t] = "await"
               /\ UNCHANGED <<locked, guards, listener>>
      ]_vars

\* A lock() call that was woken found the lock taken by another task: it has
\* failed more than FairThreshold attempts, so at least one of them after a
\* wake-up, and is suspended again on a new listener.
WakeupNoHandoffWitness ==
    \E t, u \in Tasks :
        /\ t # u
        /\ fails[t] > FairThreshold
        /\ pc[t] = "await" /\ listener[t] = "waiting"
        /\ locked /\ guards[u] = 1

\* Task t is the owner of the one live guard, and the flag is set.
OwnsLiveGuard(t) == locked /\ guards[t] = 1 /\ LiveGuards = 1

\* The step leaves in rendered[t] a new text other than the sentinel.
RendersData(t) ==
    /\ rendered'[t] # rendered[t]
    /\ rendered'[t] \notin {"-", debug_struct("<locked>")}

\* C18. The data is read and written only through the live guard: every
\* step that reads it (deref, and the read made by fmt) or writes it
\* (deref_mut) is taken by the owner of the one live guard while locked is
\* true, and the data changes, or is rendered, in no other step.
DataOnlyThroughGuard ==
    [][/\ \A t \in Tasks :
            /\ (IncrRead(t) \/ IncrWrite(t) \/ FmtData(t)) =>
                  OwnsLiveGuard(t) /\ locked' /\ guards'[t] = 1
            /\ RendersData(t) =>
                  FmtData(t) /\ rendered'[t] = debug_struct(ToString(data))
            /\ tmp'[t] # tmp[t] => IncrRead(t) \/ IncrWrite(t)
       /\ data' # data => \E t \in Tasks : IncrWrite(t) /\ data' = tmp[t] + 1
      ]_vars

\* fmt has rendered, through the guard it took, the value another task
\* wrote through its guard before releasing it.
DataOnlyThroughGuardWitness ==
    \E t \in Tasks :
        /\ pc[t] = "rendered" /\ guards[t] = 1 /\ locked
        /\ data = 1
        /\ rendered[t] = debug_struct("1")

\* The tasks that hold a registered listener, notified or not.
Registered == {t \in Tasks : listener[t] # "none"}

\* The tasks with a lock() call that has started and has not resolved.
PendingCalls == {t \in Tasks : Pending(t)}

\* C19. Registrations do not accumulate: a listener is registered only by a
\* pending lock() call that holds none, a call that resolves (by the first
\* or by the second try_lock) holds none afterwards, and so the registered
\* listeners are never more than the pending lock() calls.
NoListenerLeak ==
    /\ [](/\ Registered \subseteq {t \in Tasks : pc[t] \in {"try2", "await"}}
          /\ Cardinality(Registered) <= Cardinality(PendingCalls))
    /\ [][\A t \in Tasks :
            /\ (listener[t] # "waiting" /\ listener'[t] = "waiting") =>
                  /\ listener[t] = "none"
                  /\ Pending(t) /\ Pending(t)'
            /\ (Pending(t) /\ ~Pending(t)') => listener'[t] = "none"
         ]_vars

\* Every pending lock() call holds its one listener, and the call that
\* resolved holds none: two calls are pending behind the guard of a third.
NoListenerLeakWitness ==
    \E t, u, v \in Tasks :
        /\ pc[t] = "cs" /\ guards[t] = 1 /\ listener[t] = "none"
        /\ pc[u] = "await" /\ pc[v] = "try2"
        /\ Registered = {u, v}
        /\ PendingCalls = {u, v}

\* Task t is inside fmt, holding the guard fmt took.
InFmt(t) == pc[t] \in {"fmt", "rendered"}

\* Task t is in the drop of the guard fmt took, after the store.
FmtDropping(t) == pc[t] = "notify" /\ rendered[t] \notin {"-", debug_struct("<locked>")}

\* C20. fmt leaves the lock as it found it.  Called while locked is true, it
\* is one step that changes neither locked nor the guards, the listeners or
\* the data, and starts no drop.  Called while locked is false, it takes a
\* guard, leaves the data unchanged while it holds it, and drops the guard
\* before it returns: the drop stores false, and fmt returns without a guard.
FmtLeavesLockAsFound ==
    /\ [](\A t \in Tasks :
            /\ InFmt(t) => (guards[t] = 1 /\ locked)
            /\ pc[t] = "idle" => guards[t] = 0)
    /\ [][\A t \in Tasks :
            /\ (FmtTry(t) /\ locked) =>
                  /\ UNCHANGED <<locked, guards, listener, data, pc>>
                  /\ rendered'[t] = debug_struct("<locked>")
            /\ (FmtTry(t) /\ ~locked) =>
                  /\ InFmt(t)' /\ guards'[t] = 1
                  /\ UNCHANGED <<listener, data>>
            /\ InFmt(t) => data' = data
            /\ (InFmt(t) /\ ~InFmt(t)') =>
                  /\ pc[t] = "rendered" /\ pc'[t] = "notify"
                  /\ ~locked' /\ guards'[t] = 0
                  /\ rendered'[t] = debug_struct(ToString(data))
            /\ (FmtDropping(t) /\ Moves(t)) =>
                  /\ pc'[t] = "idle" /\ guards'[t] = 0
                  /\ UNCHANGED <<locked, data>>
         ]_vars

\* One fmt has returned the value, having taken and dropped its guard, and
\* a later one has returned the sentinel while another task holds a guard.
FmtLeavesLockAsFoundWitness ==
    \E t, u, v \in Tasks :
        /\ rendered[u] = debug_struct("0") /\ pc[u] = "idle" /\ guards[u] = 0
        /\ rendered[t] = debug_struct("<locked>") /\ pc[t] = "idle"
        /\ locked /\ guards[v] = 1 /\ pc[v] = "cs"
        /\ Registered = {}


====
